---- MODULE Spec2Model ----
(***************************************************************************)
(* Download job orchestration of youtube-downloader-pro.                   *)
(*                                                                         *)
(* Two engines are modelled:                                               *)
(*   - the web service: the REST handlers of app/api/downloads.py, the     *)
(*     Redis queue and key/value store of app/core/redis_client.py and     *)
(*     DownloadService of app/services/download_service.py;                *)
(*   - the command-line downloader AdvancedYouTubeDownloader of            *)
(*     youtube_downloader_pro.py (queue thread + thread pool).             *)
(*                                                                         *)
(* asyncio runs one coroutine at a time: an action of the service is the   *)
(* code between two suspension points (await) of one coroutine.            *)
(***************************************************************************)
EXTENDS Integers, Sequences, FiniteSets, TLC

(***************************************************************************)
(* Bounds of the model.                                                    *)
(***************************************************************************)
NumJobs  == 2      \* download rows / job ids
MaxTasks == 2      \* process_download invocations of one behaviour
MaxCalls == 1      \* DownloadService.cancel_download invocations of one behaviour
MaxRequests == 2   \* the same where requests overlap (two cancels, a cancel and a delete)
MaxQueue == 2      \* length of the Redis list "download_queue"
MaxBg    == 1      \* queued BackgroundTasks per job
RetryCap == 4      \* retry_count is followed up to this value
MaxStreamTasks == 1   \* runs followed line by line (streaming specification)
NumCliJobs == 2    \* jobs added to the command-line downloader
MaxOut   == 2      \* output lines of one command-line run

(***************************************************************************)
(* Program constants.                                                      *)
(***************************************************************************)
\* settings.MAX_CONCURRENT_DOWNLOADS (default 10, overridable from the
\* environment); checked with a cap of 1.
MAX_CONCURRENT_DOWNLOADS == 1
\* Download.max_retries column default.
max_retries == 3

\* AdvancedYouTubeDownloader(max_workers) (default 4, --workers on the
\* command line); checked with one worker.
max_workers == 1
\* output_lines[-10:], the lines kept as error message; checked with the
\* last line only.
TailLines == 1

Jobs    == 1..NumJobs
CliJobs == 1..NumCliJobs
Tasks   == 1..MaxTasks
Callers == 1..MaxCalls
Requests == 1..MaxRequests

\* DownloadStatus
Statuses ==
    {"pending", "queued", "downloading", "processing",
     "completed", "failed", "cancelled", "paused"}

VARIABLES
    rec,               \* the downloads table: job id -> row ("none": no row)
    bg,                \* BackgroundTasks: job id -> queue_download calls not yet run
    client,            \* RedisManager.client: "none" | "conn"
    queue,             \* Redis list download_queue, head first (LPUSH side)
    store,             \* Redis keys download_status:{id}
    active_downloads,  \* DownloadService.active_downloads: job id -> task (0: no entry)
    task,              \* process_download invocations (asyncio tasks)
    proc,              \* the subprocess of each task
    call,              \* cancel_download invocations
    resp,              \* the last HTTP response
    hist,              \* per run: the last percentage the tool wrote and the last published
    speed,             \* Redis keys download_speed:{id} (0: no key)
    ret,               \* job id -> what the last queue_download call returned
    db,                \* command line: the downloads table of DatabaseManager
    download_queue,    \* command line: AdvancedYouTubeDownloader.download_queue
    cli_active_downloads,  \* command line: AdvancedYouTubeDownloader.active_downloads (job ids)
    work,              \* command line: submitted calls the executor has not started
    fut,               \* command line: job id -> the future of its download_with_progress call
    qthread,           \* command line: position of the queue thread in _process_queue
    taken,             \* command line: the job the queue thread has dequeued (0: none)
    running,           \* command line: AdvancedYouTubeDownloader.running
    pool_shutdown,     \* command line: the executor has been shut down
    config,            \* the job configuration handed to a command builder
    cmd,               \* the argument vector built from it
    redis_client,      \* the module global redis_client of app/core/redis_client.py
    sent,              \* job id -> the last snapshot handed to redis_manager.set
    got                \* job id -> what the last get_download_progress returned

svcVars ==
    <<rec, bg, client, queue, store, active_downloads, task, proc, call, resp, hist,
      speed, ret>>
cliVars ==
    <<db, download_queue, cli_active_downloads, work, fut, qthread, taken, running,
      pool_shutdown>>
cmdVars == <<config, cmd>>
redisVars == <<redis_client, sent, got>>
vars == <<svcVars, cliVars, cmdVars, redisVars>>

(***************************************************************************)
(* The downloads table.                                                    *)
(***************************************************************************)
NoRow ==
    [status |-> "none", progress |-> 0, error_message |-> "",
     retry_count |-> 0, max_retries |-> 0]

\* Download(...) as create_download builds it; column defaults fill the rest.
NewRow ==
    [status |-> "pending", progress |-> 0, error_message |-> "",
     retry_count |-> 0, max_retries |-> max_retries]

NoSnap == [status |-> "none", progress |-> 0, error |-> ""]

NoTask == [job |-> 0, pc |-> "unused", must_cancel |-> FALSE, result |-> "none"]
NoProc == [state |-> "none", rc |-> 0, behav |-> "exits", sigterm |-> FALSE]
\* by: the handler that called cancel_download.
NoCall ==
    [job |-> 0, pc |-> "unused", task |-> 0, found |-> FALSE, result |-> "none",
     by |-> "none"]
NoResp == [op |-> "none", job |-> 0, code |-> 0]

Response(op, j, code) == [op |-> op, job |-> j, code |-> code]

(***************************************************************************)
(* RedisManager                                                            *)
(***************************************************************************)
\* push_to_queue: LPUSH when there is a client and the command succeeds
\* (ok); otherwise the list is unchanged and False is returned.
push_to_queue(q, item, ok) == IF client # "none" /\ ok THEN <<item>> \o q ELSE q

\* pop_from_queue: BRPOP takes the tail of the list.
pop_item(q) == q[Len(q)]
pop_rest(q) == SubSeq(q, 1, Len(q) - 1)

(***************************************************************************)
(* REST handlers (app/api/downloads.py)                                    *)
(***************************************************************************)
\* "if not download": no row has the id ("deleted": the row was deleted; an
\* id is not given twice).
Missing(row) == row.status \in {"none", "deleted"}

\* POST /: the row is created PENDING and queue_download is scheduled.
\* Ids are assigned in order.
create_download(j) ==
    /\ rec[j].status = "none"
    /\ \A i \in Jobs : i < j => rec[i].status # "none"
    /\ rec' = [rec EXCEPT ![j] = NewRow]
    /\ bg' = [bg EXCEPT ![j] = @ + 1]
    /\ resp' = Response("create", j, 201)
    /\ UNCHANGED <<client, queue, store, active_downloads, task, proc, call, hist, speed, ret, cliVars, cmdVars, redisVars>>

\* PATCH /{id}: every field of the body that is set is written to the row
\* (of the two fields of DownloadUpdate the row model keeps status).
update_download(j) ==
    /\ IF Missing(rec[j])
       THEN /\ resp' = Response("update", j, 404)
            /\ rec' = rec
       ELSE /\ \E st \in Statuses \cup {"unset"} :
                 rec' = [rec EXCEPT ![j].status = IF st = "unset" THEN @ ELSE st]
            /\ resp' = Response("update", j, 200)
    /\ UNCHANGED <<bg, client, queue, store, active_downloads, task, proc, call, hist, speed, ret, cliVars, cmdVars, redisVars>>

\* The rows retry_download accepts.
RetryAllowed_mut(row) == row.status \in {"failed", "cancelled", "completed"}
RetryAllowed(row) == row.status \in {"failed", "cancelled"}

\* The row as retry_download resets it.
RetryReset_mut(row) ==
    [row EXCEPT !.status = "pending", !.progress = 0, !.error_message = "",
                !.retry_count = @ + 1, !.max_retries = 0]
RetryReset(row) ==
    [row EXCEPT !.status = "pending", !.progress = 0, !.error_message = "",
                !.retry_count = @ + 1]

\* POST /{id}/retry
retry_download(j) ==
    /\ IF Missing(rec[j])
       THEN /\ resp' = Response("retry", j, 404)
            /\ UNCHANGED <<rec, bg>>
       ELSE IF ~RetryAllowed(rec[j])
       THEN /\ resp' = Response("retry", j, 400)
            /\ UNCHANGED <<rec, bg>>
       ELSE /\ rec[j].retry_count < RetryCap
            /\ bg[j] < MaxBg
            /\ rec' = [rec EXCEPT ![j] = RetryReset(rec[j])]
            /\ bg' = [bg EXCEPT ![j] = @ + 1]
            /\ resp' = Response("retry", j, 200)
    /\ UNCHANGED <<client, queue, store, active_downloads, task, proc, call, hist, speed, ret, cliVars, cmdVars, redisVars>>

\* What queue_download returns: False only from its except clause, and
\* push_to_queue raises nothing (it returns False itself); the value
\* push_to_queue returns (pushed) is not looked at.
QueueDownloadReturn(pushed) == "true"

\* DownloadService.queue_download, run as a background task.
queue_download(j) ==
    /\ bg[j] > 0
    /\ Len(queue) < MaxQueue
    /\ bg' = [bg EXCEPT ![j] = @ - 1]
    /\ \E ok \in BOOLEAN :
         /\ queue' = push_to_queue(queue, j, ok)
         /\ ret' = [ret EXCEPT ![j] = QueueDownloadReturn(client # "none" /\ ok)]
    /\ UNCHANGED <<rec, client, store, active_downloads, task, proc, call, resp, hist,
                   speed, cliVars, cmdVars, redisVars>>

(***************************************************************************)
(* Tool output.  A line is the sequence of its whitespace-separated parts  *)
(* (str.split), a part the sequence of its characters; "[download]" is one *)
(* symbol.                                                                 *)
(***************************************************************************)
DigitVal == ("0" :> 0) @@ ("1" :> 1) @@ ("2" :> 2) @@ ("5" :> 5)
IsDigit(c) == c \in DOMAIN DigitVal

RECURSIVE DigitsValue(_)
DigitsValue(s) ==
    IF s = <<>> THEN 0
    ELSE 10 * DigitsValue(SubSeq(s, 1, Len(s) - 1)) + DigitVal[s[Len(s)]]

\* float(text): an optional sign and digits give the number, anything else
\* raises ValueError (ok = FALSE).
ParseFloat_mut(s) ==
    LET body == IF s # <<>> /\ s[1] = "-" THEN Tail(s) ELSE s
    IN  IF body # <<>> /\ \A i \in 1..Len(body) : IsDigit(body[i])
        THEN [ok |-> TRUE, val |-> DigitsValue(body)]
        ELSE [ok |-> FALSE, val |-> 0]
ParseFloat(s) ==
    LET neg  == s # <<>> /\ s[1] = "-"
        body == IF neg THEN Tail(s) ELSE s
    IN  IF body # <<>> /\ \A i \in 1..Len(body) : IsDigit(body[i])
        THEN [ok |-> TRUE, val |-> IF neg THEN 0 - DigitsValue(body) ELSE DigitsValue(body)]
        ELSE [ok |-> FALSE, val |-> 0]

\* part.endswith("%") and part.replace("%", "")
EndsWithPercent(part) == part # <<>> /\ part[Len(part)] = "%"
StripPercent(part) == SelectSeq(part, LAMBDA c : c # "%")

\* substring in line
LineContains(line, sym) ==
    \E i \in 1..Len(line) : \E k \in 1..Len(line[i]) : line[i][k] = sym

\* The loop over line.split() of DownloadService._parse_progress: the first
\* part ending in "%" that float() accepts is the percentage; a part float()
\* rejects is passed over (ValueError is caught inside the loop).
RECURSIVE FirstPercent(_)
FirstPercent(parts) ==
    IF parts = <<>> THEN [found |-> FALSE, val |-> 0]
    ELSE IF EndsWithPercent(Head(parts)) /\ ParseFloat(StripPercent(Head(parts))).ok
         THEN [found |-> TRUE, val |-> ParseFloat(StripPercent(Head(parts))).val]
         ELSE FirstPercent(Tail(parts))

\* DownloadService._parse_progress: the percentage it hands to
\* _update_download_progress, if any.
ParseProgress_mut(line) ==
    IF LineContains(line, "[download]")
    THEN IF FirstPercent(line).found THEN FirstPercent(line)
                                     ELSE [found |-> TRUE, val |-> 0]
    ELSE [found |-> FALSE, val |-> 0]
ParseProgress(line) ==
    IF LineContains(line, "[download]") /\ LineContains(line, "%")
    THEN FirstPercent(line)
    ELSE [found |-> FALSE, val |-> 0]

\* substring in line, for a two-character substring (no whitespace in it)
LineContainsPair(line, a, b) ==
    \E i \in 1..Len(line) : \E k \in 1..(Len(line[i]) - 1) :
        line[i][k] = a /\ line[i][k + 1] = b

\* multipliers of _extract_speed
UnitMult == ("K" :> 1024) @@ ("M" :> 1024 * 1024) @@ ("G" :> 1024 * 1024 * 1024)

\* The positions of a part where "(K|M|G)iB/s" starts with a digit before it.
SpeedUnitAt(part) ==
    {p \in 2..(Len(part) - 4) :
        /\ part[p] \in DOMAIN UnitMult
        /\ <<part[p + 1], part[p + 2], part[p + 3], part[p + 4]>> = <<"i", "B", "/", "s">>
        /\ IsDigit(part[p - 1])}

\* The digits re.search matches before the unit at p: the longest run.
SpeedDigits(part, p) ==
    LET from == CHOOSE i \in 1..(p - 1) :
                    /\ \A k \in i..(p - 1) : IsDigit(part[k])
                    /\ \A h \in 1..(i - 1) : \E k \in h..(p - 1) : ~IsDigit(part[k])
    IN  SubSeq(part, from, p - 1)

\* DownloadService._extract_speed: the leftmost match of
\* (\d+\.?\d*)(K|M|G)iB/s in the line, in bytes per second.  (The lines of
\* this model write whole numbers.)
RECURSIVE ExtractSpeed(_)
ExtractSpeed(parts) ==
    IF parts = <<>> THEN [found |-> FALSE, val |-> 0]
    ELSE IF SpeedUnitAt(Head(parts)) # {}
         THEN LET p == CHOOSE q \in SpeedUnitAt(Head(parts)) :
                           \A r \in SpeedUnitAt(Head(parts)) : q <= r
              IN  [found |-> TRUE,
                   val |-> ParseFloat(SpeedDigits(Head(parts), p)).val
                               * UnitMult[Head(parts)[p]]]
         ELSE ExtractSpeed(Tail(parts))

\* The second half of _parse_progress: the speed it hands to
\* _update_download_speed, if any.
ParseSpeed(line) ==
    IF LineContains(line, "[download]") /\ LineContainsPair(line, "/", "s")
    THEN ExtractSpeed(line)
    ELSE [found |-> FALSE, val |-> 0]

\* What the tool writes.  str(n) of a percentage, digit by digit.
DigitChar == <<"0", "1", "2", "3", "4", "5", "6", "7", "8", "9">>
RECURSIVE NatChars(_)
NatChars(n) ==
    IF n < 10 THEN <<DigitChar[n + 1]>>
    ELSE NatChars(n \div 10) \o <<DigitChar[(n % 10) + 1]>>
IntChars(n) == IF n < 0 THEN <<"-">> \o NatChars(0 - n) ELSE NatChars(n)

\* "[download]  50% of 10MiB ..."
ProgressLine(n) == << <<"[download]">>, IntChars(n) \o <<"%">>, <<"o", "f">> >>
\* "[download] Destination: x"
ChatterLine == << <<"[download]">>, <<"x">> >>
\* a percent token float() rejects before the real one
NaLine(n) == << <<"[download]">>, <<"x", "%">>, IntChars(n) \o <<"%">> >>
\* a percentage on a line that is not a [download] line
UntaggedLine(n) == << IntChars(n) \o <<"%">> >>
\* "[download]  50% of 10MiB at 2KiB/s"
SpeedLine(n) ==
    << <<"[download]">>, IntChars(n) \o <<"%">>, <<"a", "t">>,
       <<"2", "K", "i", "B", "/", "s">> >>
\* a speed without a percentage
SpeedOnlyLine == << <<"[download]">>, <<"1", "2", "M", "i", "B", "/", "s">> >>
\* "/s" with no speed in front of it
SlashLine == << <<"[download]">>, <<"x", "/", "s">> >>
\* bytes that are not UTF-8: line.decode() raises UnicodeDecodeError
BadBytes == << <<"\\xff">> >>

\* Percentages the tool is taken to write: the streaming specification
\* includes a re-report (20 after 50) and values outside 0..100.
StreamPercents == {-5, 20, 50, 100, 150}
EnginePercents == {50}

StreamLines ==
    {ProgressLine(n) : n \in StreamPercents}
        \cup {ChatterLine, NaLine(50), UntaggedLine(20), BadBytes}
        \cup {SpeedLine(50), SpeedOnlyLine, SlashLine}
EngineLines == {ProgressLine(n) : n \in EnginePercents} \cup {ChatterLine, BadBytes}

\* The percentage a line of the tool carries (what the tool meant), if any.
ToolPercent(line) ==
    IF \E n \in StreamPercents : line \in {ProgressLine(n), NaLine(n), SpeedLine(n)}
    THEN [found |-> TRUE,
          val |-> CHOOSE n \in StreamPercents :
                      line \in {ProgressLine(n), NaLine(n), SpeedLine(n)}]
    ELSE [found |-> FALSE, val |-> 0]

(***************************************************************************)
(* DownloadService (app/services/download_service.py)                      *)
(***************************************************************************)
\* _update_download_status: the snapshot replaces the key download_status:{id}
\* when RedisManager.set has a client and the SET succeeds (ok); a failure
\* is swallowed and leaves the key as it was.
Snapshot(status, progress, error) ==
    [status |-> status, progress |-> progress, error |-> error]
update_download_status(st, j, snap, ok) ==
    IF client # "none" /\ ok THEN [st EXCEPT ![j] = snap] ELSE st

\* Whether _update_download_status raises to its caller when the write
\* fails: RedisManager.set returns False instead of raising, and the whole
\* body is inside try/except Exception.
StatusUpdateRaises_mut(ok) == ~ok
StatusUpdateRaises(ok) == FALSE

\* _update_download_speed: the key download_speed:{id}, written the same way.
update_download_speed(sp, j, v, ok) ==
    IF client # "none" /\ ok THEN [sp EXCEPT ![j] = v] ELSE sp

\* The finally clause of process_download: the entry of the job id is
\* deleted, whichever task it names.
ReleaseHandle(act, j) == [act EXCEPT ![j] = 0]

\* last: the line the run read last.
NoHist == [has |-> FALSE, tool |-> 0, pub |-> 0, last |-> <<>>]

\* The worker: an id popped from download_queue (pop_from_queue) is handed to
\* process_download as a new task, which runs to its first suspension, the
\* await of create_subprocess_exec.  Nothing is looked at but the queue.
dispatch(t) ==
    /\ client # "none"
    /\ queue # <<>>
    /\ task[t].pc = "unused"
    /\ \A u \in Tasks : u < t => task[u].pc # "unused"
    /\ queue' = pop_rest(queue)
    /\ task' = [task EXCEPT ![t] = [NoTask EXCEPT !.job = pop_item(queue), !.pc = "spawning"]]
    /\ UNCHANGED <<rec, bg, client, store, active_downloads, proc, call, resp, hist, speed, ret, cliVars, cmdVars, redisVars>>

\* _execute_download, lines 196-203: the subprocess is created and the task
\* registers itself under the job id; or create_subprocess_exec raises and
\* the failure is published (except Exception).
spawn(t) ==
    /\ task[t].pc = "spawning"
    /\ \/ /\ \E b \in {"exits", "hangs"} :
               proc' = [proc EXCEPT ![t] = [NoProc EXCEPT !.state = "running", !.behav = b]]
          /\ active_downloads' = [active_downloads EXCEPT ![task[t].job] = t]
          /\ task' = [task EXCEPT ![t].pc = "reading"]
          /\ store' = store
       \/ /\ \E ok \in BOOLEAN :
               store' = update_download_status(store, task[t].job,
                                               Snapshot("failed", 0, "launch"), ok)
          /\ task' = [task EXCEPT ![t].pc = "pub_error"]
          /\ UNCHANGED <<proc, active_downloads>>
    /\ UNCHANGED <<rec, bg, client, queue, call, resp, hist, speed, ret, cliVars, cmdVars, redisVars>>

\* One pass of "async for line in process.stdout": the line is decoded and
\* given to _parse_progress, which publishes a percentage it finds.
read_line(t, line) ==
    /\ task[t].pc = "reading"
    /\ ~task[t].must_cancel
    /\ proc[t].state = "running"
    /\ IF line = BadBytes
       THEN /\ \E ok \in BOOLEAN :
                 store' = update_download_status(store, task[t].job,
                                                 Snapshot("failed", 0, "decode"), ok)
            /\ task' = [task EXCEPT ![t].pc = "pub_error"]
            /\ UNCHANGED <<hist, speed>>
       ELSE /\ task' = task
            /\ IF ParseProgress(line).found
               THEN /\ \E ok \in BOOLEAN :
                         store' = update_download_status(
                                      store, task[t].job,
                                      Snapshot("downloading", ParseProgress(line).val, ""), ok)
                    /\ hist' = [hist EXCEPT ![t] =
                                   [has |-> TRUE, tool |-> ToolPercent(line).val,
                                    pub |-> ParseProgress(line).val, last |-> line]]
               ELSE /\ store' = store
                    /\ hist' = [hist EXCEPT ![t].last = line]
            /\ IF ParseSpeed(line).found
               THEN \E ok \in BOOLEAN :
                        speed' = update_download_speed(speed, task[t].job,
                                                       ParseSpeed(line).val, ok)
               ELSE speed' = speed
    /\ UNCHANGED <<rec, bg, client, queue, active_downloads, proc, call, resp,
                   ret, cliVars, cmdVars, redisVars>>

\* The subprocess ends: by itself, or on SIGTERM.  A process that hangs
\* neither ends by itself nor on SIGTERM.
proc_exit(t) ==
    /\ proc[t].state = "running"
    /\ proc[t].behav = "exits"
    /\ \E rc \in (IF proc[t].sigterm THEN {-15} ELSE {0, 1}) :
         proc' = [proc EXCEPT ![t].state = "exited", ![t].rc = rc]
    /\ UNCHANGED <<rec, bg, client, queue, store, active_downloads, task, call, resp, hist, speed, ret, cliVars, cmdVars, redisVars>>

\* End of the stream and process.wait(), lines 214-224: the exit code
\* decides the terminal snapshot.
task_eof(t) ==
    /\ task[t].pc = "reading"
    /\ ~task[t].must_cancel
    /\ proc[t].state = "exited"
    /\ \E ok \in BOOLEAN :
         /\ store' = update_download_status(
                         store, task[t].job,
                         IF proc[t].rc = 0 THEN Snapshot("completed", 100, "")
                                           ELSE Snapshot("failed", 0, ""), ok)
         /\ task' = [task EXCEPT ![t].pc = IF StatusUpdateRaises(ok) THEN "pub_error"
                                                                      ELSE "published"]
    /\ UNCHANGED <<rec, bg, client, queue, active_downloads, proc, call, resp, hist, speed, ret, cliVars, cmdVars, redisVars>>

\* The task resumes after its last publish: the coroutine returns (or
\* re-raises CancelledError) and the finally clause of process_download runs.
task_return(t) ==
    /\ task[t].pc \in {"published", "pub_error", "pub_cancelled"}
    /\ ~task[t].must_cancel
    /\ task' = [task EXCEPT ![t].pc = "done",
                            ![t].result =
                                IF task[t].pc = "pub_cancelled" THEN "cancelled"
                                ELSE IF task[t].pc = "published" /\ proc[t].rc = 0 THEN "true"
                                ELSE "false"]
    /\ active_downloads' = ReleaseHandle(active_downloads, task[t].job)
    /\ UNCHANGED <<rec, bg, client, queue, store, proc, call, resp, hist, speed, ret, cliVars, cmdVars, redisVars>>

\* What the except asyncio.CancelledError clause does with the subprocess:
\* terminate() and wait(), nothing else.
CancelSignal(p) == [p EXCEPT !.sigterm = TRUE]

\* CancelledError is raised in the task at the await it is suspended in.
\* Inside the try block of _execute_download (lines 228-235): a running
\* subprocess is sent SIGTERM and waited for; then "cancelled" is published.
\* Inside an except clause the error leaves process_download at once.
task_cancelled(t) ==
    /\ task[t].must_cancel
    /\ task[t].pc \in {"reading", "published", "cancel_wait", "pub_cancelled", "pub_error"}
    /\ IF task[t].pc \in {"reading", "published"}
       THEN IF proc[t].state = "running"
            THEN /\ proc' = [proc EXCEPT ![t] = CancelSignal(proc[t])]
                 /\ task' = [task EXCEPT ![t].pc = "cancel_wait", ![t].must_cancel = FALSE]
                 /\ UNCHANGED <<store, active_downloads>>
            ELSE /\ \E ok \in BOOLEAN :
                      store' = update_download_status(store, task[t].job,
                                                      Snapshot("cancelled", 0, ""), ok)
                 /\ task' = [task EXCEPT ![t].pc = "pub_cancelled", ![t].must_cancel = FALSE]
                 /\ UNCHANGED <<proc, active_downloads>>
       ELSE /\ task' = [task EXCEPT ![t].pc = "done", ![t].must_cancel = FALSE,
                                    ![t].result = "cancelled"]
            /\ active_downloads' = ReleaseHandle(active_downloads, task[t].job)
            /\ UNCHANGED <<store, proc>>
    /\ UNCHANGED <<rec, bg, client, queue, call, resp, hist, speed, ret, cliVars, cmdVars, redisVars>>

\* process.wait() in the except clause returns: "cancelled" is published.
cancel_wait_done(t) ==
    /\ task[t].pc = "cancel_wait"
    /\ ~task[t].must_cancel
    /\ proc[t].state = "exited"
    /\ \E ok \in BOOLEAN :
         store' = update_download_status(store, task[t].job,
                                         Snapshot("cancelled", 0, ""), ok)
    /\ task' = [task EXCEPT ![t].pc = "pub_cancelled"]
    /\ UNCHANGED <<rec, bg, client, queue, active_downloads, proc, call, resp, hist, speed, ret, cliVars, cmdVars, redisVars>>

\* DownloadService.cancel_download after "await task": the entry is deleted
\* again; when the task's own finally clause has deleted it already the del
\* raises KeyError, which the outer except turns into False.
CancelResult(act, j) == IF act[j] # 0 THEN "true" ELSE "false"

\* POST /{id}/cancel up to the await of the task: the row is read and its
\* status checked, then DownloadService.cancel_download looks the id up; with
\* no entry it returns False and the handler marks the row CANCELLED.
api_cancel_download(c, j) ==
    /\ call[c].pc = "unused"
    /\ \A d \in Requests : d < c => call[d].pc # "unused"
    /\ IF Missing(rec[j])
       THEN /\ resp' = Response("cancel", j, 404)
            /\ UNCHANGED <<rec, task, call>>
       ELSE IF rec[j].status \notin {"pending", "queued", "downloading"}
       THEN /\ resp' = Response("cancel", j, 400)
            /\ UNCHANGED <<rec, task, call>>
       ELSE IF active_downloads[j] # 0
       THEN /\ task' = [task EXCEPT ![active_downloads[j]].must_cancel = TRUE]
            /\ call' = [call EXCEPT ![c] =
                           [job |-> j, pc |-> "awaiting", task |-> active_downloads[j],
                            found |-> TRUE, result |-> "none", by |-> "cancel"]]
            /\ UNCHANGED <<rec, resp>>
       ELSE /\ call' = [call EXCEPT ![c] =
                           [job |-> j, pc |-> "done", task |-> 0,
                            found |-> FALSE, result |-> "false", by |-> "cancel"]]
            /\ rec' = [rec EXCEPT ![j].status = "cancelled"]
            /\ resp' = Response("cancel", j, 200)
            /\ task' = task
    /\ UNCHANGED <<bg, client, queue, store, active_downloads, proc, hist, speed, ret, cliVars, cmdVars, redisVars>>

\* The awaited task is done: cancel_download returns and the handler marks
\* the row CANCELLED.
api_cancel_resume(c) ==
    /\ call[c].pc = "awaiting"
    /\ call[c].by = "cancel"
    /\ task[call[c].task].pc = "done"
    /\ call' = [call EXCEPT ![c].pc = "done",
                            ![c].result = CancelResult(active_downloads, call[c].job)]
    /\ active_downloads' = ReleaseHandle(active_downloads, call[c].job)
    /\ rec' = [rec EXCEPT ![call[c].job].status =
                               IF Missing(rec[call[c].job]) THEN @ ELSE "cancelled"]
    /\ resp' = Response("cancel", call[c].job, 200)
    /\ UNCHANGED <<bg, client, queue, store, task, proc, hist, speed, ret, cliVars, cmdVars, redisVars>>

\* DELETE /{id} up to the await of the task: cancel_download is called only
\* for a row that is DOWNLOADING or QUEUED; then the row is deleted.
api_delete_download(c, j) ==
    /\ call[c].pc = "unused"
    /\ \A d \in Requests : d < c => call[d].pc # "unused"
    /\ IF Missing(rec[j])
       THEN /\ resp' = Response("delete", j, 404)
            /\ UNCHANGED <<rec, task, call>>
       ELSE IF rec[j].status \in {"downloading", "queued"} /\ active_downloads[j] # 0
       THEN /\ task' = [task EXCEPT ![active_downloads[j]].must_cancel = TRUE]
            /\ call' = [call EXCEPT ![c] =
                           [job |-> j, pc |-> "awaiting", task |-> active_downloads[j],
                            found |-> TRUE, result |-> "none", by |-> "delete"]]
            /\ UNCHANGED <<rec, resp>>
       ELSE /\ call' = [call EXCEPT ![c] =
                           [job |-> j, pc |-> "done", task |-> 0,
                            found |-> FALSE, result |-> "false", by |-> "delete"]]
            /\ rec' = [rec EXCEPT ![j] = [NoRow EXCEPT !.status = "deleted"]]
            /\ resp' = Response("delete", j, 200)
            /\ task' = task
    /\ UNCHANGED <<bg, client, queue, store, active_downloads, proc, hist, speed, ret, cliVars, cmdVars, redisVars>>

\* The awaited task is done: cancel_download returns and the handler deletes
\* the row.
api_delete_resume(c) ==
    /\ call[c].pc = "awaiting"
    /\ call[c].by = "delete"
    /\ task[call[c].task].pc = "done"
    /\ call' = [call EXCEPT ![c].pc = "done",
                            ![c].result = CancelResult(active_downloads, call[c].job)]
    /\ active_downloads' = ReleaseHandle(active_downloads, call[c].job)
    /\ rec' = [rec EXCEPT ![call[c].job] = [NoRow EXCEPT !.status = "deleted"]]
    /\ resp' = Response("delete", call[c].job, 200)
    /\ UNCHANGED <<bg, client, queue, store, task, proc, hist, speed, ret, cliVars, cmdVars, redisVars>>

(***************************************************************************)
(* The Redis connection (app/core/redis_client.py) and the progress read.  *)
(***************************************************************************)
NoSent == [has |-> FALSE, snap |-> NoSnap, ok |-> FALSE]
NoGot == [read |-> FALSE, found |-> FALSE, snap |-> NoSnap, current_speed |-> 0]

\* init_redis, called by lifespan at startup: the module global is bound to
\* the new connection, or to None when the ping fails.  redis_manager was
\* constructed when the module was imported and is not touched.
init_redis ==
    /\ redis_client = "none"
    /\ \E reachable \in BOOLEAN :
         redis_client' = IF reachable THEN "conn" ELSE "none"
    /\ UNCHANGED <<sent, got, svcVars, cliVars, cmdVars>>

\* The snapshots _execute_download and _parse_progress publish.
Published ==
    {Snapshot("downloading", n, "") : n \in {0, 50, 100}}
        \cup {Snapshot("completed", 100, ""), Snapshot("failed", 0, ""),
              Snapshot("cancelled", 0, "")}

\* _update_download_status called for job j; ok: the server accepts the SET.
publish_status(j, snap) ==
    /\ \E ok \in BOOLEAN :
         /\ store' = update_download_status(store, j, snap, ok)
         /\ sent' = [sent EXCEPT ![j] = [has |-> TRUE, snap |-> snap, ok |-> ok]]
    /\ UNCHANGED <<rec, bg, client, queue, active_downloads, task, proc, call, resp, hist,
                   speed, ret, redis_client, got, cliVars, cmdVars>>

\* RedisManager.get: None without a client or without the key; the value
\* was written by json.dumps and is read by json.loads, which gives the
\* dictionary back.
redis_manager_get(st, j) == IF client # "none" THEN st[j] ELSE NoSnap

\* DownloadService.get_download_progress: the status key, with the speed
\* key merged in; None when the status key is not found.
get_download_progress(j) ==
    /\ got' = [got EXCEPT ![j] =
                  IF redis_manager_get(store, j) # NoSnap
                  THEN [read |-> TRUE, found |-> TRUE, snap |-> redis_manager_get(store, j),
                        current_speed |-> IF client # "none" THEN speed[j] ELSE 0]
                  ELSE [NoGot EXCEPT !.read = TRUE]]
    /\ UNCHANGED <<redis_client, sent, svcVars, cliVars, cmdVars>>

(***************************************************************************)
(* AdvancedYouTubeDownloader (youtube_downloader_pro.py)                   *)
(***************************************************************************)
\* A row of the downloads table as save_job writes it from DownloadJob's
\* defaults; error_message is the sequence of its lines.
NoCliRow == [status |-> "none", progress |-> 0, error_message |-> <<>>]
NewCliRow == [status |-> "pending", progress |-> 0, error_message |-> <<>>]

NoFuture == [pc |-> "none", output_lines |-> <<>>, result |-> "none"]

\* str(e) of the exception Popen raises
LaunchError == << << <<"[Errno 2]">> >> >>

\* What the tool writes to a command-line run.
CliLines == {ProgressLine(50), ChatterLine, NaLine(50)}

\* The progress parsing of download_with_progress: the first part ending in
\* "%" is given to float(); the ValueError of a part float() rejects is caught
\* outside the loop over the parts and ends the search.
RECURSIVE CliFirstPercent(_)
CliFirstPercent(parts) ==
    IF parts = <<>> THEN [found |-> FALSE, val |-> 0]
    ELSE IF EndsWithPercent(Head(parts))
         THEN [found |-> ParseFloat(StripPercent(Head(parts))).ok,
               val |-> ParseFloat(StripPercent(Head(parts))).val]
         ELSE CliFirstPercent(Tail(parts))

CliParseProgress(line) ==
    IF LineContains(line, "[download]") /\ LineContains(line, "%")
    THEN CliFirstPercent(line)
    ELSE [found |-> FALSE, val |-> 0]

\* output_lines[-n:]
LastLines(lines, n) ==
    IF Len(lines) <= n THEN lines ELSE SubSeq(lines, Len(lines) - n + 1, Len(lines))

\* Calls of download_with_progress a worker thread of the executor is in.
Running_mut ==
    {id \in CliJobs : fut[id].pc \in {"popen", "reading"}
                        \/ (fut[id].pc = "done" /\ fut[id].result = "false")}
Running == {id \in CliJobs : fut[id].pc \in {"popen", "reading"}}

\* add_download: the job is saved (ids in order) and put on the queue.
add_download(id) ==
    /\ db[id].status = "none"
    /\ \A i \in CliJobs : i < id => db[i].status # "none"
    /\ db' = [db EXCEPT ![id] = NewCliRow]
    /\ download_queue' = Append(download_queue, id)
    /\ UNCHANGED <<cli_active_downloads, work, fut, qthread, taken, running, pool_shutdown,
                   svcVars, cmdVars, redisVars>>

\* _process_queue, lines 453-455: while running is set, a job is taken from
\* the queue.
process_queue_get ==
    /\ qthread = "get"
    /\ running
    /\ download_queue # <<>>
    /\ download_queue' = Tail(download_queue)
    /\ taken' = Head(download_queue)
    /\ qthread' = "submit"
    /\ UNCHANGED <<db, cli_active_downloads, work, fut, running, pool_shutdown,
                   svcVars, cmdVars, redisVars>>

\* _process_queue, lines 458-459: the job is submitted to the executor at
\* once and its future recorded.  After executor.shutdown() submit raises
\* RuntimeError, which the except clause of the loop (line 470) prints.
process_queue_submit ==
    /\ qthread = "submit"
    /\ taken' = 0
    /\ IF pool_shutdown
       THEN /\ qthread' = "get"
            /\ UNCHANGED <<work, fut, cli_active_downloads>>
       ELSE /\ work' = Append(work, taken)
            /\ fut' = [fut EXCEPT ![taken].pc = "pending"]
            /\ cli_active_downloads' = cli_active_downloads \cup {taken}
            /\ qthread' = "cleanup"
    /\ UNCHANGED <<db, download_queue, running, pool_shutdown, svcVars, cmdVars, redisVars>>

\* shutdown: running is cleared and the executor shut down; the calls
\* already submitted still run (shutdown(wait=True)).
shutdown ==
    /\ running
    /\ running' = FALSE
    /\ pool_shutdown' = TRUE
    /\ UNCHANGED <<db, download_queue, cli_active_downloads, work, fut, qthread, taken,
                   svcVars, cmdVars, redisVars>>

\* _process_queue, lines 462-466: the futures that are done are dropped.
process_queue_cleanup ==
    /\ qthread = "cleanup"
    /\ cli_active_downloads' = {id \in cli_active_downloads : fut[id].pc # "done"}
    /\ qthread' = "get"
    /\ UNCHANGED <<db, download_queue, work, fut, taken, running, pool_shutdown,
                   svcVars, cmdVars, redisVars>>

\* A worker thread of the ThreadPoolExecutor takes the oldest submitted call;
\* download_with_progress runs up to line 382, which marks the job
\* downloading before the subprocess exists.
worker_start(id) ==
    /\ work # <<>> /\ Head(work) = id
    /\ Cardinality(Running) < max_workers
    /\ work' = Tail(work)
    /\ db' = [db EXCEPT ![id].status = "downloading", ![id].progress = 0]
    /\ fut' = [fut EXCEPT ![id].pc = "popen"]
    /\ UNCHANGED <<download_queue, cli_active_downloads, qthread, taken, running, pool_shutdown,
                   svcVars, cmdVars, redisVars>>

\* subprocess.Popen: the process starts, or Popen raises and the except
\* clause marks the job failed with str(e).
cli_popen(id) ==
    /\ fut[id].pc = "popen"
    /\ \/ /\ fut' = [fut EXCEPT ![id].pc = "reading"]
          /\ db' = db
       \/ /\ fut' = [fut EXCEPT ![id].pc = "done", ![id].result = "false"]
          /\ db' = [db EXCEPT ![id].status = "failed", ![id].error_message = LaunchError]
    /\ UNCHANGED <<download_queue, cli_active_downloads, work, qthread, taken, running, pool_shutdown,
                   svcVars, cmdVars, redisVars>>

\* One pass of "for line in process.stdout".
cli_read_line(id, line) ==
    /\ fut[id].pc = "reading"
    /\ Len(fut[id].output_lines) < MaxOut
    /\ fut' = [fut EXCEPT ![id].output_lines = Append(@, line)]
    /\ db' = IF CliParseProgress(line).found
             THEN [db EXCEPT ![id].progress = CliParseProgress(line).val]
             ELSE db
    /\ UNCHANGED <<download_queue, cli_active_downloads, work, qthread, taken, running, pool_shutdown,
                   svcVars, cmdVars, redisVars>>

\* End of the output, process.wait() and lines 414-432.
cli_finish(id, rc) ==
    /\ fut[id].pc = "reading"
    /\ fut' = [fut EXCEPT ![id].pc = "done",
                          ![id].result = IF rc = 0 THEN "true" ELSE "false"]
    /\ db' = IF rc = 0
             THEN [db EXCEPT ![id].status = "completed", ![id].progress = 100]
             ELSE [db EXCEPT ![id].status = "failed",
                             ![id].error_message =
                                 LastLines(fut[id].output_lines, TailLines)]
    /\ UNCHANGED <<download_queue, cli_active_downloads, work, qthread, taken, running, pool_shutdown,
                   svcVars, cmdVars, redisVars>>

\* AdvancedYouTubeDownloader.get_queue_status
get_queue_status ==
    [queue_size |-> Len(download_queue),
     active_downloads |-> Cardinality(cli_active_downloads),
     total_capacity |-> max_workers]

InitCli ==
    /\ db = [id \in CliJobs |-> NoCliRow]
    /\ download_queue = <<>>
    /\ cli_active_downloads = {}
    /\ work = <<>>
    /\ fut = [id \in CliJobs |-> NoFuture]
    /\ qthread = "get"
    /\ taken = 0
    /\ running = TRUE
    /\ pool_shutdown = FALSE

(***************************************************************************)
(* The command builders: DownloadService._build_download_command and       *)
(* AdvancedYouTubeDownloader.build_command.  An argument is the sequence   *)
(* of the pieces its string is put together from; a directory is the       *)
(* sequence of its components as written ("./out" is <<".", "out">>).      *)
(* "unset": the key is missing (config.get) or the field has its           *)
(* DownloadJob default.                                                    *)
(***************************************************************************)
NoConfig ==
    [builder |-> "none", audio_only |-> FALSE, extract_audio |-> FALSE,
     quality |-> "unset", fps |-> "unset", format |-> "unset",
     output_dir |-> <<"unset">>, subtitles |-> FALSE, subtitle_langs |-> <<"unset">>,
     auto_subtitles |-> FALSE, thumbnail |-> FALSE, metadata |-> "unset",
     start_time |-> "unset", end_time |-> "unset",
     playlist_start |-> "unset", playlist_end |-> "unset", speed |-> "unset"]

\* The configurations of the format options, everything else at its default.
Configs ==
    [builder : {"service", "cli"}, audio_only : BOOLEAN, extract_audio : BOOLEAN,
     quality : {"unset", "720", "1080"}, fps : {"unset", "30"},
     format : {"unset", "mp4", "mkv"},
     output_dir : {<<"unset">>}, subtitles : {FALSE}, subtitle_langs : {<<"unset">>},
     auto_subtitles : {FALSE}, thumbnail : {FALSE}, metadata : {"unset"},
     start_time : {"unset"}, end_time : {"unset"},
     playlist_start : {"unset"}, playlist_end : {"unset"}, speed : {"unset"}]

\* The configurations of the other options, the format options at their
\* defaults but for audio_only and extract_audio.
OptionConfigs ==
    [builder : {"service", "cli"}, audio_only : BOOLEAN, extract_audio : BOOLEAN,
     quality : {"unset"}, fps : {"unset"}, format : {"unset"},
     output_dir : {<<"unset">>, <<"out">>, <<".", "out">>},
     subtitles : BOOLEAN, subtitle_langs : {<<"unset">>, <<>>, <<"en", "de">>},
     auto_subtitles : BOOLEAN, thumbnail : BOOLEAN, metadata : {"unset", "yes", "no"},
     start_time : {"unset", "10"}, end_time : {"unset", "20"},
     playlist_start : {"unset", "2"}, playlist_end : {"unset", "3"},
     speed : {"unset", "5"}]

\* sep.join(parts)
RECURSIVE Join(_, _)
Join(parts, sep) ==
    IF parts = <<>> THEN <<>>
    ELSE IF Len(parts) = 1 THEN <<parts[1]>>
    ELSE <<parts[1], sep>> \o Join(Tail(parts), sep)

\* str(Path(dir) / name): pathlib writes the path without its "." components.
PathlibJoin(dir, name) ==
    Join(SelectSeq(dir, LAMBDA comp : comp # ".") \o <<name>>, "/")

\* os.path.join(dir, name): the directory as written, a separator, the name.
OsPathJoin(dir, name) == Join(dir \o <<name>>, "/")

\* The directory and the subtitle languages when none is given.
GetDir(v) == IF v = <<"unset">> THEN <<"downloads">> ELSE v
GetLangs(v) == IF v = <<"unset">> THEN <<"en">> ELSE v

\* config.get(key, default)
Get(v, default) == IF v = "unset" THEN default ELSE v

\* f"[fps<={fps}]" if fps else ""
FpsFilter(fps) == IF fps # "unset" THEN <<"[fps<=", fps, "]">> ELSE <<>>

\* f"bestvideo[height<={quality}]{fps_filter}+bestaudio/best[height<={quality}]"
FormatStr(quality, fps) ==
    <<"bestvideo", "[height<=", quality, "]">> \o FpsFilter(fps)
        \o <<"+bestaudio", "/", "best", "[height<=", quality, "]">>

\* if not audio_only and not extract_audio
RemuxApplies_mut(audio_only, extract_audio) == ~audio_only
RemuxApplies(audio_only, extract_audio) == ~audio_only /\ ~extract_audio

\* The options both builders add from the selector on.
FormatOptions(audio_only, extract_audio, quality, fps, format, audio_format) ==
    (IF audio_only THEN << <<"-f">>, <<"bestaudio">> >>
                   ELSE << <<"-f">>, FormatStr(quality, fps) >>)
    \o (IF extract_audio
        THEN << <<"--extract-audio">>, <<"--audio-format">>, <<audio_format>> >>
        ELSE <<>>)
    \o (IF RemuxApplies(audio_only, extract_audio)
        THEN << <<"--remux-video">>, <<format>> >>
        ELSE <<>>)

\* The subtitle, thumbnail and metadata options (written alike in both
\* builders).
ExtraOptions(subtitles, langs, auto_subtitles, thumbnail, metadata) ==
    (IF subtitles
     THEN << <<"--write-subs">> >>
            \o (IF langs # <<>> THEN << <<"--sub-langs">>, Join(langs, ",") >> ELSE <<>>)
     ELSE <<>>)
    \o (IF auto_subtitles THEN << <<"--write-auto-subs">> >> ELSE <<>>)
    \o (IF thumbnail THEN << <<"--write-thumbnail">> >> ELSE <<>>)
    \o (IF metadata THEN << <<"--write-info-json">>, <<"--write-description">> >> ELSE <<>>)

\* The time range of _build_download_command, lines 147-164.
ServiceTimeRange(start_time, end_time) ==
    IF start_time # "unset" \/ end_time # "unset"
    THEN << <<"--external-downloader">>, <<"ffmpeg">> >>
           \o (IF start_time # "unset"
               THEN << <<"--external-downloader-args">>, <<"-ss ", start_time>> >>
               ELSE <<>>)
           \o (IF end_time # "unset"
               THEN << <<"--external-downloader-args">>, <<"-to ", end_time>> >>
               ELSE <<>>)
    ELSE <<>>

\* The time range of build_command, lines 329-343.
CliTimeRange_mut(start_time, end_time) ==
    (IF start_time # "unset"
     THEN << <<"--external-downloader">>, <<"ffmpeg">>,
             <<"--external-downloader-args">>, <<"-ss ", start_time>> >>
     ELSE <<>>)
    \o (IF end_time # "unset"
        THEN << <<"--external-downloader-args">>, <<"-to ", end_time>> >>
        ELSE <<>>)
CliTimeRange(start_time, end_time) ==
    (IF start_time # "unset"
     THEN << <<"--external-downloader">>, <<"ffmpeg">>,
             <<"--external-downloader-args">>, <<"-ss ", start_time>> >>
     ELSE <<>>)
    \o (IF end_time # "unset"
        THEN (IF start_time = "unset"
              THEN << <<"--external-downloader">>, <<"ffmpeg">> >> ELSE <<>>)
             \o << <<"--external-downloader-args">>, <<"-to ", end_time>> >>
        ELSE <<>>)

\* The playlist range (str() of a number is its one piece).
PlaylistRange(playlist_start, playlist_end) ==
    (IF playlist_start # "unset" THEN << <<"--playlist-start">>, <<playlist_start>> >>
                                 ELSE <<>>)
    \o (IF playlist_end # "unset" THEN << <<"--playlist-end">>, <<playlist_end>> >>
                                  ELSE <<>>)

\* The options every command ends with, before the url.
AdditionalOptions ==
    << <<"--embed-chapters">>, <<"--ignore-errors">>, <<"--no-warnings">>,
       <<"--progress">>, <<"--newline">> >>

\* DownloadService._build_download_command
build_download_command(c) ==
    << <<"yt-dlp">>, <<"-o">>, PathlibJoin(GetDir(c.output_dir), "%(title)s.%(ext)s") >>
        \o FormatOptions(c.audio_only, c.extract_audio, Get(c.quality, "1080"),
                         c.fps, Get(c.format, "mp4"), "mp3")
        \o ExtraOptions(c.subtitles, GetLangs(c.subtitle_langs), c.auto_subtitles,
                        c.thumbnail, Get(c.metadata, "yes") = "yes")
        \o ServiceTimeRange(c.start_time, c.end_time)
        \o PlaylistRange(c.playlist_start, c.playlist_end)
        \o AdditionalOptions
        \o << <<"url">> >>

\* AdvancedYouTubeDownloader.build_command
build_command(job) ==
    << <<"yt-dlp">>, <<"-o">>, OsPathJoin(GetDir(job.output_dir), "%(title)s.%(ext)s") >>
        \o FormatOptions(job.audio_only, job.extract_audio, Get(job.quality, "1080"),
                         job.fps, Get(job.format, "mp4"), "mp3")
        \o ExtraOptions(job.subtitles, GetLangs(job.subtitle_langs), job.auto_subtitles,
                        job.thumbnail, Get(job.metadata, "yes") = "yes")
        \o CliTimeRange(job.start_time, job.end_time)
        \o PlaylistRange(job.playlist_start, job.playlist_end)
        \o (IF job.speed # "unset" THEN << <<"--limit-rate">>, <<job.speed, "M">> >>
                                    ELSE <<>>)
        \o AdditionalOptions
        \o << <<"url">> >>

\* process_download, line 52
service_build ==
    /\ config.builder = "service" /\ cmd = <<>>
    /\ cmd' = build_download_command(config)
    /\ UNCHANGED <<config, svcVars, cliVars, redisVars>>

\* download_with_progress, line 375
cli_build ==
    /\ config.builder = "cli" /\ cmd = <<>>
    /\ cmd' = build_command(config)
    /\ UNCHANGED <<config, svcVars, cliVars, redisVars>>

(***************************************************************************)
(* Specifications                                                          *)
(***************************************************************************)
InitSvc ==
    /\ rec = [j \in Jobs |-> NoRow]
    /\ bg = [j \in Jobs |-> 0]
    /\ client \in {"none", "conn"}
    /\ queue = <<>>
    /\ store = [j \in Jobs |-> NoSnap]
    /\ active_downloads = [j \in Jobs |-> 0]
    /\ task = [t \in Tasks |-> NoTask]
    /\ proc = [t \in Tasks |-> NoProc]
    /\ call = [c \in Requests |-> NoCall]
    /\ resp = NoResp
    /\ hist = [t \in Tasks |-> NoHist]
    /\ speed = [j \in Jobs |-> 0]
    /\ ret = [j \in Jobs |-> "none"]

\* redis_client is None when the module is imported.
InitRedis ==
    /\ redis_client = "none"
    /\ sent = [j \in Jobs |-> NoSent]
    /\ got = [j \in Jobs |-> NoGot]

Init ==
    /\ InitSvc
    /\ InitCli
    /\ InitRedis
    /\ config = NoConfig
    /\ cmd = <<>>

\* A command builder given one configuration.
InitBuild ==
    /\ InitSvc
    /\ InitCli
    /\ InitRedis
    /\ config \in Configs
    /\ cmd = <<>>

NextBuild ==
    \/ service_build
    \/ cli_build

SpecBuild == InitBuild /\ [][NextBuild]_vars

\* A command builder given one configuration of the other options.
InitOptions ==
    /\ InitSvc
    /\ InitCli
    /\ InitRedis
    /\ config \in OptionConfigs
    /\ cmd = <<>>

SpecOptions == InitOptions /\ [][NextBuild]_vars

\* The runs of the tasks in ts, the tool writing lines of the set lines.
Engine(ts, lines) ==
    \/ \E t \in ts : dispatch(t)
    \/ \E t \in ts : spawn(t)
    \/ \E t \in ts : \E line \in lines : read_line(t, line)
    \/ \E t \in ts : proc_exit(t)
    \/ \E t \in ts : task_eof(t)
    \/ \E t \in ts : task_return(t)

\* The engine of the web service under create and cancel requests.
Next ==
    \/ \E j \in Jobs : create_download(j)
    \/ \E j \in Jobs : queue_download(j)
    \/ \E c \in Callers : \E j \in Jobs : api_cancel_download(c, j)
    \/ \E c \in Callers : api_cancel_resume(c)
    \/ Engine(Tasks, EngineLines)
    \/ \E t \in Tasks : task_cancelled(t)
    \/ \E t \in Tasks : cancel_wait_done(t)

Spec == Init /\ [][Next]_vars

\* The REST handlers with no worker consuming the queue.
NextApi ==
    \/ \E j \in Jobs : create_download(j)
    \/ \E j \in Jobs : update_download(j)
    \/ \E j \in Jobs : retry_download(j)
    \/ \E j \in Jobs : queue_download(j)
    \/ \E c \in Callers : \E j \in Jobs : api_cancel_download(c, j)

SpecApi == Init /\ [][NextApi]_vars

\* The engine reading every kind of line the tool may write.
NextStream ==
    \/ \E j \in Jobs : create_download(j)
    \/ \E j \in Jobs : queue_download(j)
    \/ Engine(1..MaxStreamTasks, StreamLines)

SpecStream == Init /\ [][NextStream]_vars

\* The engine with retries: a job cancelled while its id waits in the queue
\* and retried afterwards has its id in the queue twice.
DupLines == {ProgressLine(50)}

NextDup ==
    \/ \E j \in Jobs : create_download(j)
    \/ \E j \in Jobs : retry_download(j)
    \/ \E j \in Jobs : queue_download(j)
    \/ \E c \in Callers : \E j \in Jobs : api_cancel_download(c, j)
    \/ Engine(Tasks, DupLines)

SpecDup == Init /\ [][NextDup]_vars

\* Overlapping cancel requests for a running job.
NextCancel ==
    \/ \E j \in Jobs : create_download(j)
    \/ \E j \in Jobs : queue_download(j)
    \/ \E c \in Requests : \E j \in Jobs : api_cancel_download(c, j)
    \/ \E c \in Requests : api_cancel_resume(c)
    \/ Engine(1..MaxStreamTasks, DupLines)
    \/ \E t \in 1..MaxStreamTasks : task_cancelled(t)
    \/ \E t \in 1..MaxStreamTasks : cancel_wait_done(t)

SpecCancel == Init /\ [][NextCancel]_vars

\* Delete requests for jobs in any state.
NextDelete ==
    \/ \E j \in Jobs : create_download(j)
    \/ \E j \in Jobs : update_download(j)
    \/ \E j \in Jobs : queue_download(j)
    \/ \E c \in Requests : \E j \in Jobs : api_delete_download(c, j)
    \/ \E c \in Requests : api_delete_resume(c)
    \/ Engine(1..MaxStreamTasks, DupLines)
    \/ \E t \in 1..MaxStreamTasks : task_cancelled(t)
    \/ \E t \in 1..MaxStreamTasks : cancel_wait_done(t)

SpecDelete == Init /\ [][NextDelete]_vars

\* The application after import: redis_manager was constructed while
\* redis_client was None; lifespan calls init_redis, then statuses are
\* published and read.
InitImport ==
    /\ Init
    /\ client = redis_client

NextRedis ==
    \/ init_redis
    \/ \E j \in Jobs : \E snap \in Published : publish_status(j, snap)
    \/ \E j \in Jobs : get_download_progress(j)

SpecRedis == InitImport /\ [][NextRedis]_vars

\* The command-line downloader.
NextCli ==
    \/ \E id \in CliJobs : add_download(id)
    \/ process_queue_get
    \/ process_queue_submit
    \/ process_queue_cleanup
    \/ \E id \in CliJobs : worker_start(id)
    \/ \E id \in CliJobs : cli_popen(id)
    \/ \E id \in CliJobs : \E line \in CliLines : cli_read_line(id, line)
    \/ \E id \in CliJobs : \E rc \in {0, 1} : cli_finish(id, rc)

SpecCli == Init /\ [][NextCli]_vars

\* The command-line downloader with shutdown() called at any time (main
\* calls it when the wait loop ends or is interrupted).
NextCliShutdown ==
    \/ NextCli
    \/ shutdown

SpecCliShutdown == Init /\ [][NextCliShutdown]_vars

\* The threads of the downloader are scheduled and a subprocess ends.
FairnessCli ==
    /\ WF_vars(process_queue_get)
    /\ WF_vars(process_queue_submit)
    /\ WF_vars(process_queue_cleanup)
    /\ \A id \in CliJobs :
         /\ WF_vars(worker_start(id))
         /\ WF_vars(cli_popen(id))
         /\ WF_vars(\E rc \in {0, 1} : cli_finish(id, rc))

FairSpecCli == SpecCli /\ FairnessCli

\* What the scheduling of the event loop and of the operating system
\* guarantees: a task that can resume does, a process that ends by itself
\* (or honours SIGTERM) does end.
Fairness ==
    /\ \A t \in Tasks :
         /\ WF_vars(spawn(t))
         /\ WF_vars(proc_exit(t))
         /\ WF_vars(task_eof(t))
         /\ WF_vars(task_return(t))
         /\ WF_vars(task_cancelled(t))
         /\ WF_vars(cancel_wait_done(t))
    /\ \A c \in Callers : WF_vars(api_cancel_resume(c))

FairSpec == Spec /\ Fairness

(***************************************************************************)
(* Claims                                                                  *)
(***************************************************************************)
\* Jobs with a subprocess that has been started and has not exited.
Downloading == {j \in Jobs : \E t \in Tasks : task[t].job = j /\ proc[t].state = "running"}

\* C1: at any time the number of jobs that are downloading is at most the
\* configured capacity (MAX_CONCURRENT_DOWNLOADS for DownloadService).
C1_DownloadingWithinCapacity == Cardinality(Downloading) <= MAX_CONCURRENT_DOWNLOADS

\* A cancel request has found the job pending or queued with no active handle.
CancelledIdle(j) ==
    \E c \in Callers : call[c].pc = "done" /\ call[c].job = j /\ ~call[c].found

\* C2: once a pending or queued job without an active handle has been
\* cancelled, no later step spawns a subprocess for it.
C2_NoSpawnAfterIdleCancel ==
    [][\A t \in Tasks :
         (proc[t].state = "none" /\ proc'[t].state = "running")
             => ~CancelledIdle(task[t].job)]_vars

\* C3: a cancel_download call that found the job downloading returns, and
\* the run it cancelled ends as cancelled, whatever the subprocess does.
C3_CancelCompletes ==
    \A c \in Callers :
        (call[c].pc = "awaiting")
            ~> (call[c].pc = "done"
                 /\ \E t \in Tasks : t = call[c].task /\ task[t].result = "cancelled")

\* C4: cancel_download returns True whenever the id had an entry in
\* active_downloads when it was called.
C4_CancelReturnsTrueWhenActive ==
    \A c \in Callers : (call[c].pc = "done" /\ call[c].found) => call[c].result = "true"

C6_RetryCountBounded ==
    \A j \in Jobs : rec[j].retry_count <= rec[j].max_retries

\* C7: a retry of a job that is neither failed nor cancelled answers 400 and
\* changes neither the rows nor the scheduled calls nor the queue.
C7_RetryRejectedUnlessFailedOrCancelled ==
    [][\A j \in Jobs :
         (retry_download(j) /\ rec[j].status \in Statuses \ {"failed", "cancelled"})
             => /\ resp' = Response("retry", j, 400)
                /\ rec' = rec /\ bg' = bg /\ queue' = queue]_vars

\* A retry of a completed job has just been refused.
C7_Witness ==
    \E j \in Jobs :
        /\ resp = Response("retry", j, 400)
        /\ rec[j].status = "completed"
        /\ bg[j] = 0

C9_ProgressInRange ==
    \A j \in Jobs : store[j].progress >= 0 /\ store[j].progress <= 100

\* C10: a job starts downloading only when a slot is free.
C10_StartsOnlyWhenSlotFree ==
    [][(Downloading' \ Downloading # {})
          => Cardinality(Downloading) < MAX_CONCURRENT_DOWNLOADS]_vars

\* C11: a run whose subprocess cannot be started ends failed with progress 0
\* and an error detail, and the job was not downloading when the launch
\* failed.
C11_LaunchFailureNeverDownloading ==
    [][\A id \in CliJobs :
         (fut[id].pc = "popen" /\ fut'[id].pc = "done")
             => /\ db'[id].status = "failed"
                /\ db'[id].progress = 0
                /\ db'[id].error_message # <<>>
                /\ db[id].status # "downloading"]_vars

\* C12: the terminal snapshot a run stores is completed with progress 100
\* for exit code 0, and failed with an error detail for any other exit code
\* (the run has read output the detail can be taken from).
C12_ExitCodeDecidesSnapshot ==
    [][\A t \in Tasks :
         (task_eof(t) /\ store' # store)
             => IF proc[t].rc = 0
                THEN /\ store'[task[t].job].status = "completed"
                     /\ store'[task[t].job].progress = 100
                ELSE /\ store'[task[t].job].status = "failed"
                     /\ hist[t].last # <<>> => store'[task[t].job].error # ""]_vars

DuplicateDelivery(t) ==
    \E u \in Tasks \ {t} :
        /\ task[u].job = task[t].job
        /\ active_downloads[task[t].job] = u \/ task[u].pc = "done"

\* C14: the delivery of a job id that is active or has already ended a run
\* spawns no subprocess, leaves the active handle alone and publishes nothing.
C14_DuplicateDeliveryIsNoOp ==
    [][\A t \in Tasks :
         (spawn(t) /\ DuplicateDelivery(t))
             => /\ proc'[t].state = "none"
                /\ active_downloads' = active_downloads
                /\ store' = store]_vars

\* C15: queue_download returns True exactly when the id has been added to
\* the queue.
C15_QueueFailureSurfaced ==
    [][\A j \in Jobs :
         queue_download(j) => (ret'[j] = "true" <=> queue' = <<j>> \o queue)]_vars

\* C16: whether or not the store takes a write, a run goes on reading after
\* a line, reaches its terminal publish at the end of the output, and
\* returns what the exit code says.
C16_PublishFailureKeepsOutcome ==
    [][\A t \in Tasks :
         /\ \A line \in StreamLines \ {BadBytes} :
              read_line(t, line) => (task' = task /\ proc' = proc)
         /\ task_eof(t) => task'[t].pc = "published"
         /\ (task_return(t) /\ task[t].pc = "published")
              => task'[t].result = IF proc[t].rc = 0 THEN "true" ELSE "false"]_vars

\* A run has returned True although none of its writes reached the store.
C16_Witness ==
    \E t \in Tasks :
        /\ task[t].pc = "done" /\ task[t].result = "true"
        /\ hist[t].has
        /\ client = "conn"
        /\ store[task[t].job] = NoSnap

\* The argument after -f, and the flags of an argument vector.
Selector(c) == c[(CHOOSE i \in 1..(Len(c) - 1) : c[i] = <<"-f">>) + 1]
HasFlag(c, flag) == \E i \in 1..Len(c) : c[i] = <<flag>>
HasOption(c, flag, value) ==
    \E i \in 1..(Len(c) - 1) : c[i] = <<flag>> /\ c[i + 1] = <<value>>
\* Every alternative of the selector carries the height filter of quality q.
BoundsHeight(sel, q) ==
    /\ \E i \in 1..Len(sel) : sel[i] = "bestvideo"
    /\ \A i \in 1..Len(sel) :
         sel[i] \in {"bestvideo", "best"}
             => /\ i + 3 <= Len(sel)
                /\ <<sel[i + 1], sel[i + 2], sel[i + 3]>> = <<"[height<=", q, "]">>

\* C17: without audio_only the selector bounds the height to the quality
\* and --remux-video <format> is there exactly when extract_audio is false;
\* with audio_only the selector is bestaudio and there is no remux;
\* --extract-audio and --remux-video never come together.
C17_SelectorAndRemux ==
    cmd # <<>> =>
        /\ ~config.audio_only =>
             /\ Selector(cmd) # <<"bestaudio">>
             /\ BoundsHeight(Selector(cmd), Get(config.quality, "1080"))
             /\ HasFlag(cmd, "--remux-video") <=> ~config.extract_audio
             /\ HasFlag(cmd, "--remux-video")
                    => HasOption(cmd, "--remux-video", Get(config.format, "mp4"))
        /\ config.audio_only =>
             /\ Selector(cmd) = <<"bestaudio">>
             /\ ~HasFlag(cmd, "--remux-video")
        /\ ~(HasFlag(cmd, "--extract-audio") /\ HasFlag(cmd, "--remux-video"))

\* The command of {quality 720, audio_only false, format mp4} has been built.
C17_Witness ==
    /\ config.quality = "720" /\ ~config.audio_only /\ ~config.extract_audio
    /\ config.format = "mp4"
    /\ cmd # <<>>
    /\ HasOption(cmd, "--remux-video", "mp4")

\* C18: the number of active downloads get_queue_status reports never
\* exceeds the total capacity it reports.
C18_ActiveWithinCapacity ==
    get_queue_status.active_downloads <= get_queue_status.total_capacity

\* C19: a job whose run has ended leaves the active map, whether or not
\* another job is dequeued.
C19_EndedRunLeavesActiveMap ==
    \A id \in CliJobs : (fut[id].pc = "done") ~> (id \notin cli_active_downloads)

\* The status changes of the state machine, retry apart.
Transitions ==
    {<<"pending", "queued">>, <<"queued", "downloading">>,
     <<"downloading", "completed">>, <<"downloading", "failed">>,
     <<"downloading", "cancelled">>}

\* C20: a row changes status only along pending -> queued -> downloading ->
\* completed | failed | cancelled, or from failed | cancelled to pending by a
\* retry.
C20_StatusFollowsStateMachine ==
    [][\A j \in Jobs :
         (rec[j].status # "none" /\ rec'[j].status # rec[j].status)
             => \/ <<rec[j].status, rec'[j].status>> \in Transitions
                \/ /\ rec[j].status \in {"failed", "cancelled"}
                   /\ rec'[j].status = "pending"
                   /\ retry_download(j)]_vars

\* C23: every job that has been added is dequeued and run to its end,
\* whatever becomes of the other jobs.
C23_FailureDoesNotStopTheLoop ==
    \A id \in CliJobs : (db[id].status # "none") ~> (fut[id].pc = "done")

\* One job has failed and another one, added after it or before it, has
\* completed.
C23_Witness ==
    \E k \in CliJobs : \E id \in CliJobs \ {k} :
        /\ db[k].status = "failed" /\ fut[k].pc = "done"
        /\ db[id].status = "completed" /\ fut[id].pc = "done"

\* C25: once every job that was added has finished, get_queue_status comes
\* to report an empty queue and no active download.
C25_WaitLoopTerminates ==
    ((\E id \in CliJobs : db[id].status # "none")
        /\ (\A id \in CliJobs : db[id].status # "none" => fut[id].pc = "done"))
      ~> (get_queue_status.queue_size = 0 /\ get_queue_status.active_downloads = 0)

\* C29: a pending job is in the queue, in the active map or in the hands of
\* the queue thread between get and submit.
C29_NoJobLost ==
    \A id \in CliJobs :
        db[id].status = "pending"
            => \/ \E i \in 1..Len(download_queue) : download_queue[i] = id
               \/ id \in cli_active_downloads
               \/ taken = id

\* C30 (as claimed): without a rate limit the two builders give the same
\* argument vector, ending with the url.
C30_BuildersAgree ==
    (cmd # <<>> /\ config.speed = "unset")
        => /\ cmd = build_download_command(config)
           /\ cmd = build_command(config)
           /\ cmd[Len(cmd)] = <<"url">>

\* The directory is written the way pathlib writes it.
NormalDir(dir) == \A i \in 1..Len(dir) : dir[i] # "."

\* C30 (amended): without a rate limit the two builders give argument
\* vectors that end with the url and agree everywhere but in the output
\* template (the third argument), and there too when the output directory
\* is written without "." components.
C30_BuildersAgreeButTemplate ==
    (cmd # <<>> /\ config.speed = "unset")
        => LET a == build_download_command(config)
               b == build_command(config)
           IN  /\ cmd \in {a, b}
               /\ cmd[Len(cmd)] = <<"url">>
               /\ Len(a) = Len(b)
               /\ \A i \in 1..Len(a) : i # 3 => a[i] = b[i]
               /\ NormalDir(GetDir(config.output_dir)) => a = b

\* A command with subtitles and an end time only has been built for a
\* directory written in normal form.
C30_Witness ==
    /\ cmd # <<>> /\ config.speed = "unset"
    /\ config.output_dir = <<"out">>
    /\ config.subtitles /\ config.subtitle_langs = <<"en", "de">>
    /\ config.start_time = "unset" /\ config.end_time = "20"
    /\ config.playlist_start = "2"
    /\ config.builder = "cli"
    /\ cmd = build_download_command(config)

Terminal == {"completed", "failed", "cancelled"}

\* C21: once a run has published a terminal status, nothing the run does
\* afterwards replaces the snapshot (stated for a job that no other run
\* works on, so that the snapshot is this run's).
C21_TerminalSnapshotIsFinal ==
    [][\A t \in Tasks :
          (/\ task[t].pc \in {"published", "pub_error", "pub_cancelled"}
           /\ \A u \in Tasks \ {t} : task[u].job # task[t].job
           /\ store[task[t].job].status \in Terminal)
              => store'[task[t].job] = store[task[t].job]]_vars

\* C22: the handle of a run is dropped (the run ends) only after the run has
\* issued its terminal publish, whatever the outcome.
C22_PublishBeforeRelease ==
    [][\A t \in Tasks :
          (task[t].pc \notin {"unused", "done"} /\ task'[t].pc = "done")
              => task[t].pc \in {"published", "pub_error", "pub_cancelled"}]_vars

\* C24: when a run has returned and its handle is out of the map, the
\* subprocess spawned for it has exited.
C24_NoSubprocessLeaked ==
    \A t \in Tasks :
        (task[t].pc = "done" /\ active_downloads[task[t].job] # t)
            => proc[t].state # "running"

\* C26: the manager uses the connection init_redis established, and with
\* that connection a snapshot the server accepted is what a following
\* get_download_progress returns.
C26_PublishThenRead ==
    [][/\ redis_client' = "conn" => client' = "conn"
       /\ \A j \in Jobs :
            (get_download_progress(j) /\ redis_client = "conn"
                 /\ sent[j].has /\ sent[j].ok)
                => (got'[j].found /\ got'[j].snap = sent[j].snap)]_vars

\* C27: when a run has ended and its terminal status is published, the row
\* of the job carries the same status.
C27_RowFollowsPublishedStatus ==
    \A t \in Tasks :
        (task[t].pc = "done" /\ store[task[t].job].status \in Terminal)
            => rec[task[t].job].status = store[task[t].job].status

\* C28: when delete_download returns for a job, the job has no entry in
\* active_downloads and no subprocess of it is running.
C28_DeleteStopsTheJob ==
    [][\A j \in Jobs :
          (rec[j].status # "deleted" /\ rec'[j].status = "deleted")
              => /\ active_downloads'[j] = 0
                 /\ \A t \in Tasks : task'[t].job = j => proc'[t].state # "running"]_vars

====
